---- MODULE Spec2Model ----
\* The filesystems panel state of broot (src/filesystems/filesystems_state.rs):
\* a master list of mounts, an optional filtered overlay, selection and scroll,
\* the command router, and the column selection of the renderer.
EXTENDS Integers, Sequences, FiniteSets, TLC

VARIABLES
    mounts,         \* FilesystemState.mounts: NonEmptyVec<Mount>
    selection_idx,  \* FilesystemState.selection_idx (0-based)
    scroll,         \* FilesystemState.scroll
    page_height,    \* FilesystemState.page_height
    filtered,       \* FilesystemState.filtered: Option<FilteredContent>, <<>> or <<f>>
    last,           \* history: the last event handled, what it returned, the path it targets
    sel0,           \* history: selection_idx of the last state without overlay
    mounts0,        \* history: the master sequence built by new()
    lay             \* the column selection of the last layout computation

vars == <<mounts, selection_idx, scroll, page_height, filtered, last, sel0, mounts0, lay>>

\* ---------------------------------------------------------------- bounds

MaxLoaded == 2      \* length of the list the mount loader returns
MaxHeight == 3      \* area.height handed to display
MaxClickY == 4      \* y of a click
MaxDelta == 1       \* |n| of ScrollCommand::Lines(n)
MaxWidth == 70      \* area.width handed to display

\* ---------------------------------------------------------------- helpers

None == <<>>
Some(x) == <<x>>
is_some(o) == Len(o) > 0
is_none(o) == Len(o) = 0
unwrap(o) == o[1]

Max(a, b) == IF a >= b THEN a ELSE b

\* min taking the greater of the two
min_as_max(a, b) == IF a >= b THEN a ELSE b

Min(a, b) == IF a <= b THEN a ELSE b

\* ---------------------------------------------------------------- mounts

\* lfs_core::Mount as far as this state reads it: info.id, info.dev, info.fs,
\* info.fs_type, info.mount_point, disk (an Option of its type label), and
\* whether stats is_some().
MountPool ==
    { [id |-> 1, dev |-> 10, fs |-> "/dev/nvme0n1", fs_type |-> "ext4",
       mount_point |-> "/", disk |-> Some("SSD"), stats |-> TRUE],
      [id |-> 2, dev |-> 11, fs |-> "none", fs_type |-> "tmpfs",
       mount_point |-> "/run/user/1000", disk |-> None, stats |-> TRUE],
      [id |-> 3, dev |-> 12, fs |-> "proc", fs_type |-> "proc",
       mount_point |-> "/proc", disk |-> None, stats |-> FALSE] }

\* device ids fs::metadata(path) can report: one per pooled mount, and one of none
Devices == {m.dev : m \in MountPool} \cup {99}

\* what MOUNTS.load() can return
LoadedLists == UNION {[1..n -> MountPool] : n \in 0..MaxLoaded}

\* ---------------------------------------------------------------- patterns

\* A pattern is known to this state by two things only: whether it is_none(),
\* and which strings score_of_string() scores. hits is the set of scored strings.
score_of_string(pattern, s) == IF s \in pattern.hits THEN Some(1) ELSE None

NonePattern == [none |-> TRUE, hits |-> {}]

PatternHits ==
    { {}, {"SSD"}, {"/run/user/1000"}, {"/dev/nvme0n1", "tmpfs"} }

InputPatterns == {NonePattern} \cup {[none |-> FALSE, hits |-> h] : h \in PatternHits}

\* ---------------------------------------------------------------- construction

\* .filter(|mount| mount.disk.is_some()), the show_only_disks = true branch
with_disks(loaded) == SelectSeq(loaded, LAMBDA m : m.disk # None)

\* .filter(|mount| mount.stats.is_some()) with show_only_disks = false
with_stats(loaded) == SelectSeq(loaded, LAMBDA m : m.stats)

\* .position(|m| m.info.<field> == value): Some(first 0-based index) or None,
\* looking from the 1-based place i on
RECURSIVE position_from(_, _, _, _)
position_from(seq, field, value, i) ==
    IF i > Len(seq) THEN None
    ELSE IF seq[i][field] = value THEN Some(i - 1)
    ELSE position_from(seq, field, value, i + 1)

position(seq, field, value) == position_from(seq, field, value, 1)

unwrap_or(o, d) == IF is_some(o) THEN unwrap(o) ELSE d

\* the selection_idx new() computes for a device id
initial_selection(ms, device_id) ==
    unwrap_or(position(ms, "dev", device_id), 0)

NoEvent == [op |-> "new", res |-> "Ok", path |-> "", idx |-> 0]

\* FilesystemState::new returning Ok
Init ==
    \E loaded \in LoadedLists, device_id \in Devices :
        /\ with_stats(loaded) # <<>>
        /\ mounts = with_stats(loaded)
        /\ selection_idx = initial_selection(with_stats(loaded), device_id)
        /\ scroll = 0
        /\ page_height = 0
        /\ filtered = None
        /\ last = NoEvent
        /\ sel0 = initial_selection(with_stats(loaded), device_id)
        /\ mounts0 = with_stats(loaded)
        /\ lay = None

\* the results with which new() returns no state: load()? failed, the filtered
\* list was empty (ProgramError::Lfs), fs::metadata(path)? failed
NewErrors == {"Err(load)", "Err(Lfs)", "Err(Io)"}

\* the variables' value where new() returned Err: there is no FilesystemState
NoState == [mounts |-> <<>>, selection_idx |-> 0, scroll |-> 0, page_height |-> 0,
            filtered |-> None]

\* FilesystemState::new: load is MOUNTS.load() (None: Err, Some(list): Ok) and
\* metadata is fs::metadata(path) (None: Err, Some(device id): Ok)
new(load, metadata) ==
    IF is_none(load) THEN [res |-> "Err(load)", state |-> NoState]
    ELSE IF with_stats(unwrap(load)) = <<>> THEN [res |-> "Err(Lfs)", state |-> NoState]
    ELSE IF is_none(metadata) THEN [res |-> "Err(Io)", state |-> NoState]
    ELSE [res |-> "Ok",
          state |-> [mounts |-> with_stats(unwrap(load)),
                     selection_idx |-> initial_selection(with_stats(unwrap(load)),
                                                         unwrap(metadata)),
                     scroll |-> 0,
                     page_height |-> 0,
                     filtered |-> None]]

LoadResults == {None} \cup {Some(loaded) : loaded \in LoadedLists}
MetadataResults == {None} \cup {Some(device_id) : device_id \in Devices}

\* FilesystemState::new with every outcome; last keeps what new() was given
InitNew ==
    \E load \in LoadResults, metadata \in MetadataResults :
        /\ mounts = new(load, metadata).state.mounts
        /\ selection_idx = new(load, metadata).state.selection_idx
        /\ scroll = new(load, metadata).state.scroll
        /\ page_height = new(load, metadata).state.page_height
        /\ filtered = new(load, metadata).state.filtered
        /\ last = [op |-> "new", res |-> new(load, metadata).res, path |-> "", idx |-> 0,
                   load |-> load, metadata |-> metadata]
        /\ sel0 = new(load, metadata).state.selection_idx
        /\ mounts0 = new(load, metadata).state.mounts
        /\ lay = None

\* ---------------------------------------------------------------- list state

\* count() forgetting the overlay
count_of_master == Len(mounts)

\* FilesystemState::count
count == IF is_some(filtered) THEN Len(unwrap(filtered).mounts) ELSE Len(mounts)

\* AppState::selected_path
selected_path == mounts[selection_idx + 1].mount_point

\* Option<&Mount> of the selected row of the overlay: f.mounts[f.selection_idx]
\* panics when the index is out of bounds, which get() shows as None
get(seq, i) == IF i + 1 <= Len(seq) THEN Some(seq[i + 1]) ELSE None

\* ---------------------------------------------------------------- history

\* The host drops the state after PopState / PopStateAndReapply; a panic ends it;
\* a failed new() never made one.
Alive == last.res \notin {"PopState", "PopStateAndReapply", "panic"} \cup NewErrors

\* last.idx of an event that drops the overlay: 1 + the overlay's selection_idx,
\* 0 when there was no overlay
discarded == IF is_some(filtered) THEN unwrap(filtered).selection_idx + 1 ELSE 0

Track(op, res, path, idx) ==
    /\ last' = [op |-> op, res |-> res, path |-> path, idx |-> idx]
    /\ sel0' = IF is_none(filtered') THEN selection_idx' ELSE sel0
    /\ mounts0' = mounts0
    /\ lay' = lay

\* ---------------------------------------------------------------- scrolling

Lines(n) == [kind |-> "Lines", n |-> n]
Pages(n) == [kind |-> "Pages", n |-> n]

ScrollCommands == {Lines(n) : n \in (0 - MaxDelta)..MaxDelta} \cup {Pages(0 - 1), Pages(0), Pages(1)}

\* ScrollCommand::to_lines
to_lines(cmd, ph) == IF cmd.kind = "Lines" THEN cmd.n ELSE cmd.n * ph

\* ScrollCommand::apply: the delta added, the sum clamped to [0, max(0, count - page_height)]
apply(cmd, sc, content_height, ph) ==
    Max(0, Min(sc + to_lines(cmd, ph), Max(0, content_height - ph)))

\* FilesystemState::try_scroll: the new scroll offset
scrolled(cmd) == apply(cmd, scroll, count, page_height)

\* FilesystemState::try_scroll, called by the host
try_scroll(cmd) ==
    /\ Alive
    /\ scroll' = scrolled(cmd)
    /\ UNCHANGED <<mounts, selection_idx, page_height, filtered>>
    /\ Track("try_scroll", IF scrolled(cmd) # scroll THEN "true" ELSE "false", "", 0)

\* ---------------------------------------------------------------- filtering

\* the loop's tests without the one on the disk type
skipped_without_disk(pattern, mount) ==
    /\ is_none(score_of_string(pattern, mount.fs))
    /\ is_none(score_of_string(pattern, mount.fs_type))
    /\ is_none(score_of_string(pattern, mount.mount_point))

\* the four tests of on_pattern's loop: TRUE when the mount is skipped (continue)
skipped(pattern, mount) ==
    /\ is_none(score_of_string(pattern, mount.fs))
    /\ is_none(IF is_some(mount.disk)
               THEN score_of_string(pattern, unwrap(mount.disk))
               ELSE None)
    /\ is_none(score_of_string(pattern, mount.fs_type))
    /\ is_none(score_of_string(pattern, mount.mount_point))

\* a carry-over test that leaves out the selected mount itself
carried_before(idx) == idx < selection_idx

\* the carry-over test of on_pattern's loop
carried(idx) == idx <= selection_idx

\* on_pattern's loop from 0-based idx on, acc = [mounts, selection_idx] so far
RECURSIVE scan(_, _, _)
scan(pattern, idx, acc) ==
    IF idx >= Len(mounts) THEN acc
    ELSE IF skipped(pattern, mounts[idx + 1]) THEN scan(pattern, idx + 1, acc)
    ELSE scan(pattern, idx + 1,
              [mounts |-> Append(acc.mounts, mounts[idx + 1]),
               selection_idx |-> IF carried(idx) THEN Len(acc.mounts)
                                 ELSE acc.selection_idx])

\* on_pattern taking the overlay's length after the push as its selection
filter_by_length(pattern) ==
    LET r == scan(pattern, 0, [mounts |-> <<>>, selection_idx |-> 0])
    IN  [pattern |-> pattern, mounts |-> r.mounts, selection_idx |-> Len(r.mounts)]

\* the FilteredContent on_pattern builds
filter_by(pattern) ==
    LET r == scan(pattern, 0, [mounts |-> <<>>, selection_idx |-> 0])
    IN  [pattern |-> pattern, mounts |-> r.mounts, selection_idx |-> r.selection_idx]

\* AppState::on_pattern
on_pattern(pattern) ==
    /\ Alive
    /\ filtered' = IF pattern.none THEN None ELSE Some(filter_by(pattern))
    /\ UNCHANGED <<mounts, selection_idx, scroll, page_height>>
    /\ Track("on_pattern", "Keep", "", discarded)

\* ---------------------------------------------------------------- commands

\* back copying the overlay's index instead of looking the mount up
back_position_copied(f) == Some(f.selection_idx)

\* Internal::back with an overlay f whose mounts are not empty: the master index
\* of the first mount with the id of the overlay's selected mount; None is a panic
\* (index out of bounds, or unwrap() of None)
back_position(f) ==
    IF is_none(get(f.mounts, f.selection_idx)) THEN None
    ELSE position(mounts, "id", unwrap(get(f.mounts, f.selection_idx)).id)

\* Internal::back reading the overlay through as_ref() instead of take()
back_keeping_overlay ==
    /\ Alive
    /\ filtered' = filtered
    /\ UNCHANGED <<mounts, scroll, page_height>>
    /\ IF is_some(filtered)
       THEN LET f == unwrap(filtered)
            IN IF f.mounts # <<>> /\ is_some(back_position(f))
               THEN /\ selection_idx' = unwrap(back_position(f))
                    /\ Track("back", "Keep", "", discarded)
               ELSE /\ selection_idx' = selection_idx
                    /\ Track("back", "Keep", "", discarded)
       ELSE /\ selection_idx' = selection_idx
            /\ Track("back", "PopState", "", discarded)

\* Internal::back
back ==
    /\ Alive
    /\ filtered' = None
    /\ UNCHANGED <<mounts, scroll, page_height>>
    /\ IF is_some(filtered)
       THEN LET f == unwrap(filtered)
            IN IF f.mounts # <<>>
               THEN IF is_some(back_position(f))
                    THEN /\ selection_idx' = unwrap(back_position(f))
                         /\ Track("back", "Keep", "", discarded)
                    ELSE /\ selection_idx' = selection_idx
                         /\ Track("back", "panic", "", discarded)
               ELSE /\ selection_idx' = selection_idx
                    /\ Track("back", "Keep", "", discarded)
       ELSE /\ selection_idx' = selection_idx
            /\ Track("back", "PopState", "", discarded)

\* the overlay after line_down / line_up moved its selection to i
with_selection(f, i) == [f EXCEPT !.selection_idx = i]

\* line_down moving the master selection whether or not an overlay is present
line_down_master ==
    /\ Alive
    /\ selection_idx' = IF selection_idx + 1 < Len(mounts)
                        THEN selection_idx + 1
                        ELSE selection_idx
    /\ UNCHANGED <<mounts, scroll, page_height, filtered>>
    /\ Track("line_down", "Keep", "", 0)

\* line_down letting the overlay's selection step one past its last row
line_down_past_end ==
    /\ Alive
    /\ IF is_some(filtered)
       THEN LET f == unwrap(filtered)
            IN /\ filtered' = IF f.selection_idx + 1 <= Len(f.mounts)
                              THEN Some(with_selection(f, f.selection_idx + 1))
                              ELSE filtered
               /\ selection_idx' = selection_idx
       ELSE /\ selection_idx' = IF selection_idx + 1 < count
                                THEN selection_idx + 1
                                ELSE selection_idx
            /\ filtered' = filtered
    /\ UNCHANGED <<mounts, scroll, page_height>>
    /\ Track("line_down", "Keep", "", 0)

\* Internal::line_down
line_down ==
    /\ Alive
    /\ IF is_some(filtered)
       THEN LET f == unwrap(filtered)
            IN /\ filtered' = IF f.selection_idx + 1 < Len(f.mounts)
                              THEN Some(with_selection(f, f.selection_idx + 1))
                              ELSE filtered
               /\ selection_idx' = selection_idx
       ELSE /\ selection_idx' = IF selection_idx + 1 < count
                                THEN selection_idx + 1
                                ELSE selection_idx
            /\ filtered' = filtered
    /\ UNCHANGED <<mounts, scroll, page_height>>
    /\ Track("line_down", "Keep", "", 0)

\* line_up moving the master selection whether or not an overlay is present
line_up_master ==
    /\ Alive
    /\ selection_idx' = IF selection_idx > 0 THEN selection_idx - 1 ELSE selection_idx
    /\ UNCHANGED <<mounts, scroll, page_height, filtered>>
    /\ Track("line_up", "Keep", "", 0)

\* Internal::line_up
line_up ==
    /\ Alive
    /\ IF is_some(filtered)
       THEN LET f == unwrap(filtered)
            IN /\ filtered' = IF f.selection_idx > 0
                              THEN Some(with_selection(f, f.selection_idx - 1))
                              ELSE filtered
               /\ selection_idx' = selection_idx
       ELSE /\ selection_idx' = IF selection_idx > 0
                                THEN selection_idx - 1
                                ELSE selection_idx
            /\ filtered' = filtered
    /\ UNCHANGED <<mounts, scroll, page_height>>
    /\ Track("line_up", "Keep", "", 0)

\* Internal::open_stay: a BrowserState is asked for on selected_path()
open_stay(in_new_panel) ==
    /\ Alive
    /\ UNCHANGED <<mounts, selection_idx, scroll, page_height, filtered>>
    /\ Track("open_stay", IF in_new_panel THEN "NewPanel" ELSE "NewState", selected_path, 0)

\* Internal::panel_left
panel_left(is_first) ==
    /\ Alive
    /\ UNCHANGED <<mounts, selection_idx, scroll, page_height, filtered>>
    /\ IF is_first
       THEN Track("panel_left", "NewPanel", selected_path, 0)
       ELSE Track("panel_left", "HandleInApp", "", 0)

\* Internal::panel_right
panel_right(is_last) ==
    /\ Alive
    /\ UNCHANGED <<mounts, selection_idx, scroll, page_height, filtered>>
    /\ IF is_last
       THEN Track("panel_right", "NewPanel", selected_path, 0)
       ELSE Track("panel_right", "HandleInApp", "", 0)

\* Internal::page_down
page_down ==
    /\ Alive
    /\ scroll' = scrolled(Pages(1))
    /\ UNCHANGED <<mounts, selection_idx, page_height, filtered>>
    /\ Track("page_down", "Keep", "", 0)

\* Internal::page_up
page_up ==
    /\ Alive
    /\ scroll' = scrolled(Pages(0 - 1))
    /\ UNCHANGED <<mounts, selection_idx, page_height, filtered>>
    /\ Track("page_up", "Keep", "", 0)

\* open_leave
open_leave ==
    /\ Alive
    /\ UNCHANGED <<mounts, selection_idx, scroll, page_height, filtered>>
    /\ Track("open_leave", "PopStateAndReapply", "", 0)

header_rows == 2

\* a click that ignores the scroll offset
clicked_row_unscrolled(y) == y - header_rows

\* the row a click at line y targets
clicked_row(y) == y - header_rows + scroll

\* a bound test that lets the row one past the end through
within_master_inclusive(row) == row <= Len(mounts)

\* on_click's bound test of the targeted row
within_master(row) == row < Len(mounts)

\* AppState::on_click
on_click(x, y) ==
    /\ Alive
    /\ selection_idx' = IF y >= header_rows /\ within_master(clicked_row(y))
                        THEN clicked_row(y)
                        ELSE selection_idx
    /\ UNCHANGED <<mounts, scroll, page_height, filtered>>
    /\ Track("on_click", "Keep", "", 0)

\* AppState::refresh
refresh ==
    /\ Alive
    /\ UNCHANGED <<mounts, selection_idx, scroll, page_height, filtered>>
    /\ Track("refresh", "empty", "", 0)

\* display storing page_height after the last write to the drawing surface
display_height_on_success(height, ok) ==
    /\ Alive
    /\ page_height' = IF ok THEN height ELSE page_height
    /\ UNCHANGED <<mounts, selection_idx, scroll, filtered>>
    /\ Track("display", IF ok THEN "Ok" ELSE "Err", "", height)

\* AppState::display: page_height is stored first; any later write to the
\* drawing surface may be rejected (ok = FALSE), which ends the draw with Err.
\* last.idx keeps area.height
display(height, ok) ==
    /\ Alive
    /\ page_height' = height
    /\ UNCHANGED <<mounts, selection_idx, scroll, filtered>>
    /\ Track("display", IF ok THEN "Ok" ELSE "Err", "", height)

\* display's content loop: `for y in 2..area.height`, the rows below the header
\* and the separator row
first_data_row == 2
data_rows(height) == first_data_row..(height - 1)

\* the items the loop draws: idx starts at self.scroll and is advanced once per
\* row on which mounts.get(idx) is Some, the active view being count long
drawn_items(height) ==
    {idx \in {scroll + (y - first_data_row) : y \in data_rows(height)} : idx < count}

\* ---------------------------------------------------------------- column selection

\* display: (mounts, selection_idx) of the view that is drawn
active_mounts == IF is_some(filtered) THEN unwrap(filtered).mounts ELSE mounts
active_selection == IF is_some(filtered) THEN unwrap(filtered).selection_idx ELSE selection_idx

\* the loop's idx when row y is drawn: self.scroll on the first data row, then
\* one more after every row on which mounts.get(idx) was Some
RECURSIVE idx_at(_)
idx_at(y) ==
    IF y <= first_data_row THEN scroll
    ELSE IF is_some(get(active_mounts, idx_at(y - 1))) THEN idx_at(y - 1) + 1
    ELSE idx_at(y - 1)

\* `let selected = selection_idx == idx`: the data rows drawn in the selected
\* style (cells and cw.fill alike)
selected_rows(height) == {y \in data_rows(height) : active_selection = idx_at(y)}

\* ms.iter().map(|m| m.info.<field>.chars().count()).max().unwrap_or(0).max(floor)
RECURSIVE max_width(_, _, _)
max_width(ms, field, floor) ==
    IF ms = <<>> THEN floor
    ELSE max_width(Tail(ms), field, Max(floor, Len(Head(ms)[field])))

w_dsk == 3
w_size == 4
w_use == 4
w_use_bar_min == 1
w_use_share == 4
w_free == 4
max_incr == 9

\* the column test with the comparison inverted
has_room_inverted(rem, w) == rem < w

\* the column test passing a column exactly as wide as what remains
has_room_or_equal(rem, w) == rem >= w

\* the column test looking only at whether anything remains
has_room_ignoring_width(rem, w) == rem > 0

\* the test each optional column passes to be enabled: rem > its width
has_room(rem, w) == rem > w

\* display's "width computations and selection of columns to display" for an
\* area of the given width, drawing ms; rem is the width left at the end
column_selection(width, show_selection_mark, ms) ==
    LET w_fs == max_width(ms, "fs", Len("filesystem"))
        wc_fs == IF show_selection_mark THEN w_fs + 1 ELSE w_fs
        w_type == max_width(ms, "fs_type", Len("type"))
        w_mount_point == max_width(ms, "mount_point", Len("mount point"))
        w_mandatory == wc_fs + 1 + w_size + 1 + w_free + 1 + w_mount_point
        fits == w_mandatory + 1 < width
        rem0 == IF fits THEN width - w_mandatory - 1 ELSE 0
        e_use == fits /\ has_room(rem0, w_use)
        rem1 == IF e_use THEN rem0 - (w_use + 1) ELSE rem0
        e_use_share == fits /\ e_use /\ has_room(rem1, w_use_share)
        rem2 == IF e_use_share THEN rem1 - w_use_share ELSE rem1
        e_dsk == fits /\ has_room(rem2, w_dsk)
        rem3 == IF e_dsk THEN rem2 - (w_dsk + 1) ELSE rem2
        e_use_bar == fits /\ e_use /\ has_room(rem3, w_use_bar_min)
        rem4 == IF e_use_bar THEN rem3 - (w_use_bar_min + 1) ELSE rem3
        e_type == fits /\ has_room(rem4, w_type)
        rem5 == IF e_type THEN rem4 - (w_type + 1) ELSE rem4
        incr == IF e_use_bar /\ rem5 > 0 THEN Min(rem5, max_incr) ELSE 0
    IN  [width |-> width, show_selection_mark |-> show_selection_mark,
         w_fs |-> w_fs, wc_fs |-> wc_fs, w_type |-> w_type,
         w_mount_point |-> w_mount_point, w_mandatory |-> w_mandatory,
         e_use |-> e_use, e_use_share |-> e_use_share, e_dsk |-> e_dsk,
         e_use_bar |-> e_use_bar, e_type |-> e_type,
         w_use_bar |-> w_use_bar_min + incr,
         wc_use |-> w_use + (IF e_use_share THEN w_use_share ELSE 0)
                         + (IF e_use_bar THEN w_use_bar_min + 1 ELSE 0) + incr,
         rems |-> <<rem0, rem1, rem2, rem3, rem4, rem5>>]

\* AppState::display, with the column selection it draws with kept in lay
display_columns(width, show_selection_mark, height) ==
    /\ Alive
    /\ page_height' = height
    /\ UNCHANGED <<mounts, selection_idx, scroll, filtered, sel0, mounts0>>
    /\ last' = [op |-> "display", res |-> "Ok", path |-> "", idx |-> height]
    /\ lay' = Some(column_selection(width, show_selection_mark, active_mounts))

\* ---------------------------------------------------------------- specification

Next ==
    \/ \E pattern \in InputPatterns : on_pattern(pattern)
    \/ back
    \/ line_down
    \/ line_up
    \/ \E b \in BOOLEAN : open_stay(b)
    \/ \E b \in BOOLEAN : panel_left(b)
    \/ \E b \in BOOLEAN : panel_right(b)
    \/ page_down
    \/ page_up
    \/ open_leave
    \/ \E x \in {0}, y \in 0..MaxClickY : on_click(x, y)
    \/ refresh
    \/ \E height \in 0..MaxHeight, ok \in BOOLEAN : display(height, ok)
    \/ \E cmd \in ScrollCommands : try_scroll(cmd)

Spec == Init /\ [][Next]_vars

\* The panel from a construction that may fail
SpecNew == InitNew /\ [][Next]_vars

\* A filtering episode driven by the keyboard only: every event while no overlay
\* is present; pattern edits, line and page moves while one is
NextKeys ==
    \/ is_none(filtered) /\ Next
    \/ is_some(filtered) /\ \E pattern \in InputPatterns : on_pattern(pattern)
    \/ is_some(filtered) /\ line_down
    \/ is_some(filtered) /\ line_up
    \/ is_some(filtered) /\ page_down
    \/ is_some(filtered) /\ page_up

SpecKeys == Init /\ [][NextKeys]_vars

\* The renderer's column selection over every width: the view is chosen by
\* pattern edits first, then drawn at any width
NextLayout ==
    \/ \E pattern \in InputPatterns : is_none(lay) /\ on_pattern(pattern)
    \/ \E width \in 0..MaxWidth, mark \in BOOLEAN, height \in {MaxHeight} :
           display_columns(width, mark, height)

SpecLayout == Init /\ [][NextLayout]_vars

\* ---------------------------------------------------------------- properties

\* a mount the pattern scores on one of: fs name, disk type label when a disk
\* descriptor is present, fs_type label, mount-point text
matches(pattern, mount) ==
    \/ mount.fs \in pattern.hits
    \/ mount.disk # None /\ mount.disk[1] \in pattern.hits
    \/ mount.fs_type \in pattern.hits
    \/ mount.mount_point \in pattern.hits

\* the number of matching mounts at master indices 0..s
matches_up_to(pattern, s) ==
    Cardinality({i \in 0..(Len(mounts) - 1) : i <= s /\ matches(pattern, mounts[i + 1])})

\* C1: right after on_pattern with a non-empty pattern, the overlay's
\* selection_idx is (number of matches at master indices <= s) - 1 when there
\* is such a match and 0 otherwise, s being the master selection_idx; whatever
\* overlay the edit replaced.
C1_CarryOver ==
    (last.op = "on_pattern" /\ is_some(filtered)) =>
        LET f == unwrap(filtered)
            k == matches_up_to(f.pattern, selection_idx)
        IN  f.selection_idx = IF k >= 1 THEN k - 1 ELSE 0

\* an overlay was replaced by a pattern edit that keeps two mounts and carries
\* the selection to the second
C1_Witness ==
    /\ last.op = "on_pattern"
    /\ last.idx = 1
    /\ is_some(filtered)
    /\ Len(unwrap(filtered).mounts) = 2
    /\ unwrap(filtered).selection_idx = 1

\* C2: on_pattern with a non-empty pattern leaves an overlay whose sequence is
\* exactly the master mounts that match, each once and in master order; it is
\* present, with an empty sequence, when nothing matches.
C2_Inclusion ==
    [][(last'.op = "on_pattern") =>
          \A pattern \in InputPatterns :
              (on_pattern(pattern) /\ ~pattern.none) =>
                  /\ is_some(filtered')
                  /\ unwrap(filtered').pattern = pattern
                  /\ unwrap(filtered').mounts =
                        SelectSeq(mounts, LAMBDA m : matches(pattern, m))]_vars

\* a mount kept for its disk type alone, next to one that is dropped
C2_Witness ==
    /\ last.op = "on_pattern"
    /\ is_some(filtered)
    /\ unwrap(filtered).pattern.hits = {"SSD"}
    /\ Len(unwrap(filtered).mounts) = 1
    /\ Len(mounts) = 2

\* the events C3 names
FilterEvents ==
    {"line_down", "line_up", "page_down", "page_up", "on_click", "display", "on_pattern"}

\* C3: while an overlay is present, none of line_down, line_up, page_down,
\* page_up, on_click, display or a non-empty pattern edit changes the master
\* selection_idx.
C3_MasterSelectionFrozen ==
    [][(is_some(filtered) /\ is_some(filtered') /\ last'.op \in FilterEvents) =>
          selection_idx' = selection_idx]_vars

\* C4: from a state without overlay, a non-empty pattern edit, then any
\* line_down, line_up, page_down, page_up and non-empty pattern edits, then an
\* empty pattern edit, leave no overlay, the master sequence as it was and the
\* master selection_idx at its value before the first edit (sel0).
C4_FilterClearRoundTrip ==
    [][(is_some(filtered) /\ on_pattern(NonePattern)) =>
          /\ is_none(filtered')
          /\ mounts' = mounts0
          /\ selection_idx' = sel0]_vars

\* an empty pattern edit has just discarded an overlay whose selection had moved
\* to its second row, below a master selection that is not the first row
C4_Witness ==
    /\ last.op = "on_pattern"
    /\ is_none(filtered)
    /\ last.idx = 2
    /\ selection_idx = 1

\* the ids of the master sequence are pairwise distinct
unique_ids == \A i, j \in 1..Len(mounts) : mounts[i].id = mounts[j].id => i = j

\* C5: back with an overlay whose sequence is not empty discards the overlay,
\* returns Keep and puts the master selection_idx on a mount with the id of the
\* mount selected in the overlay; with unique ids, on that very mount.
C5_BackByIdentity ==
    [][(last'.op = "back" /\ is_some(filtered) /\ unwrap(filtered).mounts # <<>>) =>
          LET f == unwrap(filtered)
              chosen == get(f.mounts, f.selection_idx)
          IN  /\ is_none(filtered')
              /\ last'.res = "Keep"
              /\ is_some(chosen)
              /\ selection_idx' < Len(mounts)
              /\ mounts[selection_idx' + 1].id = unwrap(chosen).id
              /\ (unique_ids => mounts[selection_idx' + 1] = unwrap(chosen))]_vars

\* back has just resolved the overlay's first row to the second master mount
C5_Witness ==
    /\ last.op = "back"
    /\ last.res = "Keep"
    /\ last.idx = 1
    /\ selection_idx = 1
    /\ unique_ids

\* C6: selected_path() is the mount point of the selected row of the active
\* view: of the overlay's selected mount when an overlay with mounts is present,
\* of the master's otherwise; open_stay, panel_left and panel_right target it.
C6_SelectedPathOfActiveView ==
    /\ selected_path =
          IF is_some(filtered) /\ unwrap(filtered).mounts # <<>>
          THEN unwrap(get(unwrap(filtered).mounts, unwrap(filtered).selection_idx)).mount_point
          ELSE mounts[selection_idx + 1].mount_point
    /\ (last.op \in {"open_stay", "panel_left", "panel_right"} /\ last.res # "HandleInApp") =>
          last.path = selected_path

\* the rows a scroll command has to stay within: those of the overlay when one
\* is present, of the master otherwise (after the step)
rows_after == IF filtered' # None THEN Len(filtered'[1].mounts) ELSE Len(mounts')

\* C7: after page_down, page_up or any try_scroll the scroll offset lies in
\* [0, max(0, count - page_height)]; try_scroll returns true exactly when the
\* offset changed, and always returns.
C7_ScrollWithinBounds ==
    [][(last'.op \in {"page_down", "page_up", "try_scroll"}) =>
          /\ scroll' >= 0
          /\ scroll' <= Max(0, rows_after - page_height')
          /\ (last'.op = "try_scroll") =>
                /\ last'.res \in {"true", "false"}
                /\ (last'.res = "true") <=> (scroll' # scroll)]_vars

\* page_down has moved the offset to a row of an overlay
C7_Witness ==
    /\ last.op = "page_down"
    /\ is_some(filtered)
    /\ scroll > 0
    /\ page_height > 0

\* the columns enabled for the drawn view at another width
columns_at(width) ==
    column_selection(width, unwrap(lay).show_selection_mark, active_mounts)

\* C8: for the same content, every optional column enabled at a width is
\* enabled at every larger width.
C8_LayoutMonotone ==
    is_some(lay) =>
        \A w2 \in (unwrap(lay).width + 1)..MaxWidth :
            /\ unwrap(lay).e_use => columns_at(w2).e_use
            /\ unwrap(lay).e_use_share => columns_at(w2).e_use_share
            /\ unwrap(lay).e_dsk => columns_at(w2).e_dsk
            /\ unwrap(lay).e_use_bar => columns_at(w2).e_use_bar
            /\ unwrap(lay).e_type => columns_at(w2).e_type

\* C8 as amended: for the same content, the usage-used, usage-percentage and
\* filesystem-type columns enabled at a width are enabled at every larger width.
C8_LayoutMonotoneAmended ==
    is_some(lay) =>
        \A w2 \in (unwrap(lay).width + 1)..MaxWidth :
            /\ unwrap(lay).e_use => columns_at(w2).e_use
            /\ unwrap(lay).e_use_share => columns_at(w2).e_use_share
            /\ unwrap(lay).e_type => columns_at(w2).e_type

\* a view drawn with the disk-type column but not yet the usage columns, at a
\* width that can still grow
C8_Witness ==
    /\ is_some(lay)
    /\ unwrap(lay).width < MaxWidth
    /\ unwrap(lay).e_dsk
    /\ ~unwrap(lay).e_use

\* C9: on_click(x, y) with y >= 2 and scroll + (y - 2) within the master
\* sequence sets the master selection_idx to that row, overlay or not; any other
\* click changes nothing; the overlay, scroll and page_height are never
\* changed and the result is Keep.
C9_ClickTargetsMaster ==
    [][(last'.op = "on_click") =>
          \A y \in 0..MaxClickY :
              on_click(0, y) =>
                  /\ selection_idx' = IF y >= 2 /\ scroll + (y - 2) < Len(mounts)
                                      THEN scroll + (y - 2)
                                      ELSE selection_idx
                  /\ filtered' = filtered
                  /\ scroll' = scroll
                  /\ page_height' = page_height
                  /\ mounts' = mounts
                  /\ last'.res = "Keep"]_vars

\* a click has moved the master selection to row 0 while an overlay is present
C9_Witness ==
    /\ last.op = "on_click"
    /\ is_some(filtered)
    /\ scroll = 0
    /\ selection_idx = 0
    /\ sel0 = 1

\* C10: the master sequence is never empty, is the one built at construction,
\* and the master selection_idx is an index of it.
C10_MasterSelectionInBounds ==
    /\ mounts # <<>>
    /\ mounts = mounts0
    /\ selection_idx >= 0
    /\ selection_idx < Len(mounts)

\* a click has put the master selection on the last of two mounts
C10_Witness ==
    /\ last.op = "on_click"
    /\ Len(mounts) = 2
    /\ selection_idx = 1
    /\ sel0 = 0

\* C11: an overlay's selection_idx is 0 when its sequence is empty and an index
\* of the sequence otherwise: selection_idx < max(1, len).
C11_OverlaySelectionInBounds ==
    is_some(filtered) =>
        /\ unwrap(filtered).selection_idx >= 0
        /\ unwrap(filtered).selection_idx < Max(1, Len(unwrap(filtered).mounts))

\* line_down has moved the overlay's selection to the last of two rows
C11_Witness ==
    /\ last.op = "line_down"
    /\ is_some(filtered)
    /\ Len(unwrap(filtered).mounts) = 2
    /\ unwrap(filtered).selection_idx = 1

\* the selection index of the view the keyboard moves, before and after a step
active_index == IF filtered # None THEN filtered[1].selection_idx ELSE selection_idx
active_index_after == IF filtered' # None THEN filtered'[1].selection_idx ELSE selection_idx'
active_rows == IF filtered # None THEN Len(filtered[1].mounts) ELSE Len(mounts)

\* the overlay but for its selection index
overlay_contents(o) == IF o = None THEN None ELSE Some([pattern |-> o[1].pattern, mounts |-> o[1].mounts])

\* C12: line_down adds 1 to, and line_up takes 1 from, the selection index of the
\* active view only; nothing moves at the last row (line_down), at row 0
\* (line_up) or in an empty overlay; the other view's index, scroll,
\* page_height and the overlay's contents stay, and the result is Keep.
C12_LineMoves ==
    [][(last'.op \in {"line_down", "line_up"}) =>
          /\ last'.op = "line_down" =>
                active_index_after = IF active_index + 1 < active_rows
                                     THEN active_index + 1 ELSE active_index
          /\ last'.op = "line_up" =>
                active_index_after = IF active_index > 0
                                     THEN active_index - 1 ELSE active_index
          /\ is_some(filtered) => selection_idx' = selection_idx
          /\ is_some(filtered') <=> is_some(filtered)
          /\ overlay_contents(filtered') = overlay_contents(filtered)
          /\ scroll' = scroll
          /\ page_height' = page_height
          /\ mounts' = mounts
          /\ last'.res = "Keep"]_vars

\* line_up has moved the overlay's selection back to row 0 under a master
\* selection that stays on row 1
C12_Witness ==
    /\ last.op = "line_up"
    /\ is_some(filtered)
    /\ Len(unwrap(filtered).mounts) = 2
    /\ unwrap(filtered).selection_idx = 0
    /\ selection_idx = 1

\* C13: back answers PopState exactly when there is no overlay, and then writes
\* nothing; with an overlay it answers Keep and leaves no overlay, an empty
\* overlay leaving the master selection as it was. A back that follows a back
\* answers PopState, and PopState is the answer of back only.
C13_BackPops ==
    [][/\ (last'.op = "back") =>
             /\ (last'.res = "PopState") <=> is_none(filtered)
             /\ is_none(filtered) =>
                   /\ mounts' = mounts
                   /\ selection_idx' = selection_idx
                   /\ scroll' = scroll
                   /\ page_height' = page_height
                   /\ filtered' = filtered
             /\ is_some(filtered) =>
                   /\ last'.res = "Keep"
                   /\ filtered' = None
                   /\ (unwrap(filtered).mounts = <<>>) => selection_idx' = selection_idx
             /\ (last.op = "back") => last'.res = "PopState"
       /\ (last'.res = "PopState") => last'.op = "back"]_vars

\* back has answered PopState in a state without overlay, the master selection
\* on row 1
C13_Witness ==
    /\ last.op = "back"
    /\ last.res = "PopState"
    /\ is_none(filtered)
    /\ selection_idx = 1
    /\ sel0 = 1

\* the places of the loaded list whose mount has stats, and the k-th of them
stat_places(loaded) == {i \in DOMAIN loaded : loaded[i].stats}
kth_stat_place(loaded, k) ==
    CHOOSE i \in stat_places(loaded) : Cardinality({j \in stat_places(loaded) : j <= i}) = k

\* C14: new() gives an error and no state when the loader fails, when no loaded
\* mount has stats (Lfs) or when the metadata lookup fails (Io), in this order;
\* otherwise the master is the loaded mounts with stats in load order, the
\* selection is the first mount on the path's device (0 without one), scroll and
\* page_height are 0 and there is no overlay.
C14_Construction ==
    (last.op = "new") =>
        /\ (last.res = "Err(load)") <=> is_none(last.load)
        /\ (last.res = "Err(Lfs)") <=>
              (is_some(last.load) /\ stat_places(unwrap(last.load)) = {})
        /\ (last.res = "Err(Io)") <=>
              /\ is_some(last.load)
              /\ stat_places(unwrap(last.load)) # {}
              /\ is_none(last.metadata)
        /\ (last.res \in NewErrors) =>
              /\ ~Alive
              /\ [mounts |-> mounts, selection_idx |-> selection_idx, scroll |-> scroll,
                  page_height |-> page_height, filtered |-> filtered] = NoState
        /\ (last.res \notin NewErrors) =>
              /\ last.res = "Ok"
              /\ Len(mounts) = Cardinality(stat_places(unwrap(last.load)))
              /\ \A k \in 1..Len(mounts) :
                    mounts[k] = unwrap(last.load)[kth_stat_place(unwrap(last.load), k)]
              /\ IF \E i \in 1..Len(mounts) : mounts[i].dev = unwrap(last.metadata)
                 THEN /\ mounts[selection_idx + 1].dev = unwrap(last.metadata)
                      /\ \A j \in 1..selection_idx : mounts[j].dev # unwrap(last.metadata)
                 ELSE selection_idx = 0
              /\ scroll = 0
              /\ page_height = 0
              /\ filtered = None

\* new() has dropped a loaded mount without stats and selected the mount it
\* kept, the one on the path's device
C14_Witness ==
    /\ last.op = "new"
    /\ last.res = "Ok"
    /\ Len(unwrap(last.load)) > Len(mounts)
    /\ mounts[selection_idx + 1].dev = unwrap(last.metadata)

\* C15: display, returning Ok or Err, leaves the master sequence, the master
\* selection, scroll and the overlay as they were; it writes page_height only,
\* the area's height, also when a write to the drawing surface fails.
C15_DisplayKeepsNavigation ==
    [][(last'.op = "display") =>
          /\ last'.res \in {"Ok", "Err"}
          /\ mounts' = mounts
          /\ selection_idx' = selection_idx
          /\ scroll' = scroll
          /\ filtered' = filtered
          /\ page_height' = last'.idx]_vars

\* a draw that failed over an overlay whose selection is on row 1, scroll 1,
\* has stored a new page height
C15_Witness ==
    /\ last.op = "display"
    /\ last.res = "Err"
    /\ is_some(filtered)
    /\ unwrap(filtered).selection_idx = 1
    /\ scroll = 1
    /\ page_height = MaxHeight

\* the width an enabled optional column takes from the budget, its separator
\* included (the percentage joins usage-used without one), and the budget left
\* of the area's width for column number k in the order usage-used, percentage,
\* disk type, usage bar, filesystem type
taken(l) ==
    <<IF l.e_use THEN w_use + 1 ELSE 0,
      IF l.e_use_share THEN w_use_share ELSE 0,
      IF l.e_dsk THEN w_dsk + 1 ELSE 0,
      IF l.e_use_bar THEN w_use_bar_min + 1 ELSE 0,
      IF l.e_type THEN l.w_type + 1 ELSE 0>>

RECURSIVE taken_before(_, _)
taken_before(l, k) == IF k <= 1 THEN 0 ELSE taken_before(l, k - 1) + taken(l)[k - 1]

budget_for(l, k) == l.width - l.w_mandatory - taken_before(l, k)

\* C16: the optional columns are taken in the order usage-used, percentage, disk
\* type, usage bar, filesystem type, and one is enabled only if the width left
\* after the mandatory columns and the optional columns enabled before it is
\* more than its minimum width plus one separator; percentage and bar need
\* usage-used.
C16_GreedyOrder ==
    is_some(lay) =>
        /\ unwrap(lay).e_use => budget_for(unwrap(lay), 1) > w_use + 1
        /\ unwrap(lay).e_use_share =>
              unwrap(lay).e_use /\ budget_for(unwrap(lay), 2) > w_use_share + 1
        /\ unwrap(lay).e_dsk => budget_for(unwrap(lay), 3) > w_dsk + 1
        /\ unwrap(lay).e_use_bar =>
              unwrap(lay).e_use /\ budget_for(unwrap(lay), 4) > w_use_bar_min + 1
        /\ unwrap(lay).e_type => budget_for(unwrap(lay), 5) > unwrap(lay).w_type + 1

\* after usage-used and the percentage, disk type is one character short of its
\* minimum plus separator and stays off; the usage bar, next in order, is on
C16_Witness ==
    /\ is_some(lay)
    /\ unwrap(lay).e_use
    /\ unwrap(lay).e_use_share
    /\ ~unwrap(lay).e_dsk
    /\ unwrap(lay).e_use_bar
    /\ ~unwrap(lay).e_type
    /\ budget_for(unwrap(lay), 3) = w_dsk + 1

\* what is left of width - w_mandatory - 1 after every enabled optional column
left_over(l) == budget_for(l, 6) - 1

\* C17: at width <= w_mandatory + 1 no optional column is enabled; at
\* width - w_mandatory - 1 >= w_type + 16 all five are; the bar is
\* 1 + min(what is left, 9) wide when enabled, 1 when not, always in 1..10, and
\* 10 at width - w_mandatory - 1 >= w_type + 25.
C17_BarGrowth ==
    is_some(lay) =>
        /\ (unwrap(lay).width <= unwrap(lay).w_mandatory + 1) =>
              /\ ~unwrap(lay).e_use
              /\ ~unwrap(lay).e_use_share
              /\ ~unwrap(lay).e_dsk
              /\ ~unwrap(lay).e_use_bar
              /\ ~unwrap(lay).e_type
        /\ (unwrap(lay).width - unwrap(lay).w_mandatory - 1 >= unwrap(lay).w_type + 16) =>
              /\ unwrap(lay).e_use
              /\ unwrap(lay).e_use_share
              /\ unwrap(lay).e_dsk
              /\ unwrap(lay).e_use_bar
              /\ unwrap(lay).e_type
        /\ unwrap(lay).e_use_bar =>
              unwrap(lay).w_use_bar =
                  1 + (IF left_over(unwrap(lay)) < 9 THEN left_over(unwrap(lay)) ELSE 9)
        /\ ~unwrap(lay).e_use_bar => unwrap(lay).w_use_bar = 1
        /\ unwrap(lay).w_use_bar \in 1..10
        /\ (unwrap(lay).width - unwrap(lay).w_mandatory - 1 >= unwrap(lay).w_type + 25) =>
              unwrap(lay).w_use_bar = 10

\* the narrowest area in which the bar is 10 wide
C17_Witness ==
    /\ is_some(lay)
    /\ unwrap(lay).width - unwrap(lay).w_mandatory - 1 = unwrap(lay).w_type + 25
    /\ unwrap(lay).e_use_bar
    /\ unwrap(lay).w_use_bar = 10

\* C20: the remaining-width counter never goes below 0, and when an optional
\* column is enabled the mandatory columns and the enabled optional columns,
\* the bar at its grown width, with their separators take at most width - 1.
C20_NoOverCommit ==
    is_some(lay) =>
        /\ \A k \in 1..Len(unwrap(lay).rems) : unwrap(lay).rems[k] >= 0
        /\ (\/ unwrap(lay).e_use
            \/ unwrap(lay).e_use_share
            \/ unwrap(lay).e_dsk
            \/ unwrap(lay).e_use_bar
            \/ unwrap(lay).e_type) =>
              unwrap(lay).w_mandatory
                + (IF unwrap(lay).e_use THEN w_use + 1 ELSE 0)
                + (IF unwrap(lay).e_use_share THEN w_use_share ELSE 0)
                + (IF unwrap(lay).e_dsk THEN w_dsk + 1 ELSE 0)
                + (IF unwrap(lay).e_use_bar THEN unwrap(lay).w_use_bar + 1 ELSE 0)
                + (IF unwrap(lay).e_type THEN unwrap(lay).w_type + 1 ELSE 0)
              <= unwrap(lay).width - 1
        /\ unwrap(lay).wc_use =
              w_use + (IF unwrap(lay).e_use_share THEN w_use_share ELSE 0)
                    + (IF unwrap(lay).e_use_bar THEN unwrap(lay).w_use_bar + 1 ELSE 0)

\* every optional column is on, the bar grown to 5, and the columns fill the
\* area up to the scrollbar's character
C20_Witness ==
    /\ is_some(lay)
    /\ unwrap(lay).e_dsk
    /\ unwrap(lay).e_type
    /\ unwrap(lay).e_use_bar
    /\ unwrap(lay).w_use_bar = 5
    /\ unwrap(lay).rems[6] = 4
    /\ unwrap(lay).w_mandatory + w_use + 1 + w_use_share + w_dsk + 1
          + unwrap(lay).w_use_bar + 1 + unwrap(lay).w_type + 1 = unwrap(lay).width - 1

\* C18: a display that returned Ok, on an area high enough for a data row, has
\* drawn as many data rows as the page_height it stored, showing the active
\* view's items scroll .. scroll + page_height - 1 (as far as they exist); with
\* scroll at max(0, count - page_height) the last item of the active view is
\* drawn.
C18_PageHeightRowsDrawn ==
    (last.op = "display" /\ last.res = "Ok" /\ last.idx > first_data_row) =>
        /\ Cardinality(data_rows(last.idx)) = page_height
        /\ drawn_items(last.idx) = {idx \in scroll..(scroll + page_height - 1) : idx < count}
        /\ (count > 0 /\ scroll = Max(0, count - page_height)) =>
              (count - 1) \in drawn_items(last.idx)

\* C19: every mount of an overlay has the id of a master mount, the overlay's
\* selected row exists whenever the overlay has rows, and back's lookup of its id
\* in the master finds it: back never panics.
C19_BackCannotFail ==
    /\ last.res # "panic"
    /\ is_some(filtered) =>
          /\ \A i \in 1..Len(unwrap(filtered).mounts) :
                \E j \in 1..Len(mounts) : mounts[j].id = unwrap(filtered).mounts[i].id
          /\ (unwrap(filtered).mounts # <<>>) =>
                /\ unwrap(filtered).selection_idx \in 0..(Len(unwrap(filtered).mounts) - 1)
                /\ \E j \in 1..Len(mounts) :
                      mounts[j].id =
                          unwrap(filtered).mounts[unwrap(filtered).selection_idx + 1].id

\* a click has moved the master selection off the one mount an overlay holds:
\* the next back has to find that mount again
C19_Witness ==
    /\ last.op = "on_click"
    /\ is_some(filtered)
    /\ Len(unwrap(filtered).mounts) = 1
    /\ unwrap(filtered).mounts[1].id # mounts[selection_idx + 1].id

\* C21: in every reachable state, whatever scroll commands, pattern edits, backs
\* and displays led to it, scroll <= max(0, count - page_height) for the
\* current count and page_height.
C21_ScrollBoundEverywhere ==
    scroll <= Max(0, count - page_height)

\* C22: a display that returned Ok has drawn at most one data row in the
\* selected style, and only a row holding the mount at the active view's
\* selection index; a filler row, and so every row over an empty overlay, is
\* never drawn selected.
C22_OnlySelectedMountHighlighted ==
    (last.op = "display" /\ last.res = "Ok") =>
        /\ Cardinality(selected_rows(last.idx)) <= 1
        /\ \A y \in selected_rows(last.idx) :
              /\ is_some(get(active_mounts, idx_at(y)))
              /\ idx_at(y) = active_selection

====
